---- MODULE Spec2Model ----
(***************************************************************************)
(* Model of doublethink.services.ServiceRegistry: a service registry kept  *)
(* in the 'services' table of a document store, with heartbeat, unregister,*)
(* health-filtered lookup, purge of stale rows, and the unique-service     *)
(* election built on one atomic conditional replace.                       *)
(*                                                                         *)
(* A document (a python dict / a table row) is a function from field names *)
(* to values; a field a dict does not have is outside its DOMAIN.  Time is *)
(* a single integer clock shared by the clients and the database.          *)
(***************************************************************************)
EXTENDS Integers, Sequences, FiniteSets, TLC

VARIABLES
    store,      \* the 'services' table: row id -> document
    clock,      \* current time (doublethink.utcnow() / r.now())
    generated,  \* number of primary keys the database has generated so far
    last,       \* the last completed registry call: its arguments and outcome
    pc,         \* per client: position inside its in-flight unique_service call
    call,       \* per client: role, captured `now` and candidate of that call
    won,        \* per client: its latest call that recognized it as the holder
    ret,        \* per client: value returned by its latest completed call
    calls       \* per client: number of unique_service calls it has started

vars == <<store, clock, generated, last, pc, call, won, ret, calls>>

electionVars == <<pc, call, won, ret, calls>>

----------------------------------------------------------------------------
(* Bounds of the model *)

MaxTime == 3        \* the clock runs over 0..MaxTime
MaxCalls == 2       \* unique_service calls each client makes in the election
MaxGen == 2         \* primary keys the database generates for id-less heartbeats

Procs == {1, 2}     \* clients (service instances); a client's pid is its number

GenIds == <<"g1", "g2", "g3">>      \* the keys the database generates, in order

\* Primary-key order of the table, used to break ties in order_by
IdSeq == <<"r1", "s1", "s2", "s3", "g1", "g2", "g3">>

Roles == {"r1", "r2"}

\* A ttl that is not a number (e.g. the string '60'): a value outside the
\* numbers the model uses, tested only through IsNumber
NotANumber == 99

None == [None |-> TRUE]         \* python None

HostName == "host"              \* socket.gethostname()

----------------------------------------------------------------------------
(* Dict helpers *)

Has(d, k) == k \in DOMAIN d

\* dict.update / ReQL update: fields of upd overwrite or extend d
Merge(d, upd) ==
    [k \in DOMAIN d \cup DOMAIN upd |-> IF k \in DOMAIN upd THEN upd[k] ELSE d[k]]

\* del d[k]
Without(d, k) == [f \in DOMAIN d \ {k} |-> d[f]]

\* The fields of a record other than its two heartbeat timestamps
Payload(d) == [f \in DOMAIN d \ {"first_heartbeat", "last_heartbeat"} |-> d[f]]

\* isinstance(val, float) or isinstance(val, int)
IsNumber(val) == val # NotANumber

\* Position of a key in primary-key order
RECURSIVE IdPos(_, _)
IdPos(id, n) == IF IdSeq[n] = id THEN n ELSE IdPos(id, n + 1)

----------------------------------------------------------------------------
(* Storage engine primitives used by the registry *)

\* A database that hands out the same generated key again
InsertKey_Reused(doc) == IF Has(doc, "id") THEN doc.id ELSE GenIds[1]

\* table.insert(doc, conflict='replace'): the key is doc['id'], or a key the
\* database generates when doc has none
InsertKey(doc) == IF Has(doc, "id") THEN doc.id ELSE GenIds[generated + 1]

InsertDoc(doc) == IF Has(doc, "id") THEN doc ELSE Merge(doc, [id |-> InsertKey(doc)])

Put(st, id, doc) == [i \in DOMAIN st \cup {id} |-> IF i = id THEN doc ELSE st[i]]

\* table.get(id): the row, or None
Get(st, id) == IF id \in DOMAIN st THEN st[id] ELSE None

\* A delete that is not restricted to the row of id
Delete_WholeTable(st, id) == << >>

\* table.get(id).delete()
Delete(st, id) == [i \in DOMAIN st \ {id} |-> st[i]]

\* table.get_all(role, index='role'): rows lacking the indexed field are not
\* in the index
GetAllByRole(st, role) == {i \in DOMAIN st : Has(st[i], "role") /\ st[i].role = role}

\* A liveness filter that counts a row as healthy at now - last_heartbeat = ttl
HealthyFilter_Inclusive(svc, t) ==
    /\ Has(svc, "last_heartbeat") /\ Has(svc, "ttl")
    /\ t - svc.last_heartbeat <= svc.ttl

\* the liveness filter of healthy_service / healthy_services; a row lacking a
\* field the predicate reads is skipped by filter
HealthyFilter(svc, t) ==
    /\ Has(svc, "last_heartbeat") /\ Has(svc, "ttl")
    /\ t - svc.last_heartbeat < svc.ttl

\* order_by("load"): ascending load; rows without the field sort first, ties
\* stay in primary-key order
LoadBefore(st, i, j) ==
    IF Has(st[i], "load") /\ Has(st[j], "load")
    THEN \/ st[i].load < st[j].load
         \/ st[i].load = st[j].load /\ IdPos(i, 1) < IdPos(j, 1)
    ELSE IF Has(st[i], "load") = Has(st[j], "load")
         THEN IdPos(i, 1) < IdPos(j, 1)
         ELSE ~Has(st[i], "load")

RECURSIVE OrderByLoad(_, _)
OrderByLoad(st, ids) ==
    IF ids = {} THEN << >>
    ELSE LET first == CHOOSE i \in ids : \A j \in ids \ {i} : LoadBefore(st, i, j)
         IN  <<st[first]>> \o OrderByLoad(st, ids \ {first})

----------------------------------------------------------------------------
(* heartbeat *)

RequiredFields == {"role", "ttl", "load"}

\* A validation that lets ttl = 0 through
HeartbeatRaises_ZeroTtl(status_info) ==
    \/ \E field \in RequiredFields : ~Has(status_info, field)
    \/ ~IsNumber(status_info.ttl)
    \/ status_info.ttl < 0

\* the checks that raise before anything is built or stored
HeartbeatRaises(status_info) ==
    \/ \E field \in RequiredFields : ~Has(status_info, field)
    \/ ~IsNumber(status_info.ttl)
    \/ status_info.ttl <= 0

\* A record whose first_heartbeat is set on every heartbeat
UpdatedStatusInfo_ResetFirst(status_info, t, pid) ==
    LET d1 == Merge(status_info, [last_heartbeat |-> t, first_heartbeat |-> t])
        d3 == IF Has(d1, "host") THEN d1 ELSE Merge(d1, [host |-> HostName])
    IN  IF Has(d3, "pid") THEN d3 ELSE Merge(d3, [pid |-> pid])

\* updated_status_info
UpdatedStatusInfo(status_info, t, pid) ==
    LET d1 == Merge(status_info, [last_heartbeat |-> t])
        d2 == IF Has(d1, "first_heartbeat") THEN d1
              ELSE Merge(d1, [first_heartbeat |-> d1.last_heartbeat])
        d3 == IF Has(d2, "host") THEN d2 ELSE Merge(d2, [host |-> HostName])
    IN  IF Has(d3, "pid") THEN d3 ELSE Merge(d3, [pid |-> pid])

\* Status maps a service passes to heartbeat: a fresh map, the record a
\* previous heartbeat returned (as it is, or with a new load), or a malformed
\* map
FreshStatuses ==
    { [id |-> "s1", role |-> "r1", load |-> 1, ttl |-> 2],
      [id |-> "s1", role |-> "r1", load |-> 2, ttl |-> 1],
      [id |-> "s2", role |-> "r1", load |-> 1, ttl |-> 1],
      [id |-> "s2", role |-> "r2", load |-> 1, ttl |-> 1] }

ResubmittedStatuses ==
    {store[i] : i \in DOMAIN store}
    \cup {Merge(store[i], [load |-> 2]) : i \in DOMAIN store}

MalformedStatuses ==
    { [id |-> "s1", load |-> 1, ttl |-> 2],
      [id |-> "s1", role |-> "r1", ttl |-> 2],
      [id |-> "s1", role |-> "r1", load |-> 1],
      [id |-> "s1", role |-> "r1", load |-> 1, ttl |-> 0],
      [id |-> "s2", role |-> "r1", load |-> 1, ttl |-> NotANumber] }

\* One heartbeat call with a status map drawn from `inputs`; `fails` is the
\* storage engine failing the insert
\* What heartbeat returns when the insert raises: the updated copy
OnInsertError_UpdatedCopy(status_info, updated_status_info) == updated_status_info

\* except: log the error and return status_info, the caller's own map, which
\* heartbeat never modified (it fills in a copy)
OnInsertError(status_info, updated_status_info) == status_info

HeartbeatOf(inputs) ==
    \E status_info \in inputs, fails \in BOOLEAN :
        /\ IF HeartbeatRaises(status_info)
           THEN /\ ~fails
                /\ last' = [op |-> "heartbeat", status_info |-> status_info,
                            raised |-> TRUE, failed |-> FALSE, result |-> None]
                /\ UNCHANGED <<store, generated>>
           ELSE LET doc == InsertDoc(UpdatedStatusInfo(status_info, clock, 0))
                IN  IF fails
                    THEN /\ last' = [op |-> "heartbeat", status_info |-> status_info,
                                     raised |-> FALSE, failed |-> TRUE,
                                     result |-> OnInsertError(status_info, doc)]
                         /\ UNCHANGED <<store, generated>>
                    ELSE /\ store' = Put(store, doc.id, doc)
                         /\ generated' = IF Has(status_info, "id") THEN generated
                                         ELSE generated + 1
                         /\ last' = [op |-> "heartbeat", status_info |-> status_info,
                                     raised |-> FALSE, failed |-> FALSE, result |-> doc]
        /\ UNCHANGED <<clock, electionVars>>

Heartbeat == HeartbeatOf(FreshStatuses \cup ResubmittedStatuses \cup MalformedStatuses)

----------------------------------------------------------------------------
(* unregister *)

Unregister ==
    \E id \in {"s1", "s2", "s3"} :
        /\ store' = Delete(store, id)
        /\ last' = [op |-> "unregister", id |-> id, raised |-> FALSE,
                    deleted |-> IF id \in DOMAIN store THEN 1 ELSE 0,
                    warned |-> id \notin DOMAIN store]
        /\ UNCHANGED <<clock, generated, electionVars>>

----------------------------------------------------------------------------
(* healthy_service, healthy_services *)

\* A healthy_services query that looks at the rows of every role
HealthyServicesQuery_AnyRole(st, role, t) ==
    OrderByLoad(st, {i \in DOMAIN st : HealthyFilter(st[i], t)})

\* the query of healthy_services; role = None when the argument is omitted
HealthyServicesQuery(st, role, t) ==
    LET rows == IF role # None THEN GetAllByRole(st, role.name) ELSE DOMAIN st
    IN  OrderByLoad(st, {i \in rows : HealthyFilter(st[i], t)})

\* A healthy_service query without order_by: rows come in primary-key order
HealthyServiceQuery_Unordered(st, role, t) ==
    LET ids == {i \in GetAllByRole(st, role) : HealthyFilter(st[i], t)}
    IN  IF ids = {} THEN None
        ELSE st[CHOOSE i \in ids : \A j \in ids : IdPos(i, 1) <= IdPos(j, 1)]

\* the query of healthy_service; [0] of an empty sequence raises
\* ReqlNonExistenceError, which is turned into None
HealthyServiceQuery(st, role, t) ==
    LET rows == OrderByLoad(st, {i \in GetAllByRole(st, role) : HealthyFilter(st[i], t)})
    IN  IF rows = << >> THEN None ELSE rows[1]

HealthyService ==
    \E role \in Roles :
        /\ last' = [op |-> "healthy_service", role |-> role,
                    result |-> HealthyServiceQuery(store, role, clock)]
        /\ UNCHANGED <<store, clock, generated, electionVars>>

HealthyServices ==
    \E role \in {[name |-> r] : r \in Roles} \cup {None} :
        /\ last' = [op |-> "healthy_services", role |-> role,
                    result |-> HealthyServicesQuery(store, role, clock)]
        /\ UNCHANGED <<store, clock, generated, electionVars>>

----------------------------------------------------------------------------
(* purge_stale_services *)

DefaultTtlsUntilDeletion == 2

\* A purge filter that also takes the rows stale for exactly the multiple
PurgeFilter_Inclusive(svc, t, ttls_until_deletion) ==
    /\ Has(svc, "last_heartbeat") /\ Has(svc, "ttl")
    /\ t - svc.last_heartbeat >= svc.ttl * ttls_until_deletion

PurgeFilter(svc, t, ttls_until_deletion) ==
    /\ Has(svc, "last_heartbeat") /\ Has(svc, "ttl")
    /\ t - svc.last_heartbeat > svc.ttl * ttls_until_deletion

PurgeStaleServices ==
    \E ttls_until_deletion \in {1, DefaultTtlsUntilDeletion} :
        LET doomed == {i \in DOMAIN store : PurgeFilter(store[i], clock, ttls_until_deletion)}
        IN  /\ store' = [i \in DOMAIN store \ doomed |-> store[i]]
            /\ last' = [op |-> "purge_stale_services",
                        ttls_until_deletion |-> ttls_until_deletion,
                        deleted |-> Cardinality(doomed)]
            /\ UNCHANGED <<clock, generated, electionVars>>

----------------------------------------------------------------------------
(* unique_service *)

\* An exclusion list that also leaves 'node' out of the comparison
TimestampFields_AndNode == {"first_heartbeat", "last_heartbeat", "node"}

TimestampFields == {"first_heartbeat", "last_heartbeat"}

\* A candidate validation that lets ttl = 0 through
CandidateRaises_ZeroTtl(candidate) ==
    \/ ~Has(candidate, "ttl")
    \/ ~IsNumber(candidate.ttl)
    \/ candidate.ttl < 0

\* the checks on `candidate` that raise before the first query
CandidateRaises(candidate) ==
    \/ ~Has(candidate, "ttl")
    \/ ~IsNumber(candidate.ttl)
    \/ candidate.ttl <= 0

\* A preparation that keeps the id the caller put in the candidate
PreparedCandidate_KeepId(role, candidate, t, pid) ==
    LET c1 == IF Has(candidate, "id") THEN candidate ELSE Merge(candidate, [id |-> role])
        c2 == Merge(c1, [first_heartbeat |-> t, last_heartbeat |-> t])
        c3 == IF Has(c2, "host") THEN c2 ELSE Merge(c2, [host |-> HostName])
    IN  IF Has(c3, "pid") THEN c3 ELSE Merge(c3, [pid |-> pid])

\* `candidate` as the method has filled it in before the first query
PreparedCandidate(role, candidate, t, pid) ==
    LET c1 == Merge(candidate, [id |-> role])
        c2 == Merge(c1, [first_heartbeat |-> t, last_heartbeat |-> t])
        c3 == IF Has(c2, "host") THEN c2 ELSE Merge(c2, [host |-> HostName])
    IN  IF Has(c3, "pid") THEN c3 ELSE Merge(c3, [pid |-> pid])

\* A holder test that still counts a row whose ttl has just elapsed
StillHeld_Inclusive(row, t) == row.last_heartbeat >= t - row.ttl

\* the test inside the function given to replace(): the row is kept when its
\* last heartbeat is newer than now - ttl
StillHeld(row, t) == row.last_heartbeat > t - row.ttl

\* A replace that does not look at the current row
ReplaceWith_Unconditional(st, role, candidate, t) == candidate

\* replace() applied to the row keyed by role; the result is the new row
ReplaceWith(st, role, candidate, t) ==
    IF role \in DOMAIN st /\ StillHeld(st[role], t) THEN st[role] ELSE candidate

\* A replace that measures the row's age against the candidate's ttl
Replaced_CandidateTtl(st, role, candidate, t) ==
    IF role \in DOMAIN st /\ st[role].last_heartbeat > t - candidate.ttl
    THEN st
    ELSE Put(st, role, candidate)

\* the table after get(role).replace(...)
Replaced(st, role, candidate, t) == Put(st, role, ReplaceWith(st, role, candidate, t))

\* A comparison that also requires every field of the row in the candidate
IsUniqueService_BothWays(new_val, candidate) == Payload(new_val) = Payload(candidate)

\* all([new_val.get(k) == candidate[k] for k in candidate if k not in (...)])
IsUniqueService(new_val, candidate) ==
    \A k \in DOMAIN candidate \ TimestampFields :
        Has(new_val, k) /\ new_val[k] = candidate[k]

\* A renewal that sends the candidate as it is, first_heartbeat included
RenewalDoc_Whole(candidate) == candidate

\* del candidate['first_heartbeat']: what the recognized holder sends
RenewalDoc(candidate) == Without(candidate, "first_heartbeat")

\* An update that never reaches the table
Update_Lost(st, role, doc) == st

\* table.get(role).update(doc): nothing happens when the row does not exist
Update(st, role, doc) ==
    IF role \in DOMAIN st THEN Put(st, role, Merge(st[role], doc)) ELSE st

\* the filter of the final query
FinalFilter(row, t) == row.last_heartbeat > t - row.ttl

\* the final query: the row keyed by role, if it passes the liveness filter
FinalRead(st, role, t) ==
    LET results == {i \in DOMAIN st \cap {role} : FinalFilter(st[i], t)}
    IN  IF results # {} THEN st[role] ELSE None

UniqueRoles == {"r1"}

\* Candidate dicts a client nominates itself with
Candidates(p) ==
    IF p = 1 THEN {[ttl |-> 2, node |-> "n1"]}
    ELSE {[role |-> "r1", ttl |-> 1]}

\* Other dicts the same clients call with once in a while: client 1 leaves
\* a field out or changes its value, client 2 puts an id and another role in
VariedCandidates(p) ==
    IF p = 1 THEN {[ttl |-> 2], [ttl |-> 2, node |-> "n2"]}
    ELSE {[id |-> "s1", role |-> "r2", ttl |-> 1]}

MalformedCandidates ==
    { [node |-> "n1"],
      [role |-> "r1", load |-> 1, ttl |-> 0],
      [role |-> "r1", load |-> 1, ttl |-> NotANumber] }

\* In-flight unique_service calls, one storage query per step.

\* entry: capture now, validate and fill in the candidate
USBegin(p) ==
    \E role \in UniqueRoles,
       candidate \in Candidates(p) \cup MalformedCandidates \cup {None} :
        /\ pc[p] = "idle"
        /\ calls[p] < MaxCalls
        /\ calls' = [calls EXCEPT ![p] = @ + 1]
        /\ IF candidate = None
           THEN /\ call' = [call EXCEPT ![p] =
                        [role |-> role, now |-> clock, candidate |-> None,
                         first |-> role \notin DOMAIN store]]
                /\ pc' = [pc EXCEPT ![p] = "read"]
                /\ UNCHANGED ret
           ELSE IF CandidateRaises(candidate)
           THEN /\ call' = [call EXCEPT ![p] =
                        [role |-> role, now |-> clock, candidate |-> candidate,
                         first |-> role \notin DOMAIN store]]
                /\ ret' = [ret EXCEPT ![p] = [raised |-> TRUE]]
                /\ UNCHANGED pc
           ELSE /\ call' = [call EXCEPT ![p] =
                        [role |-> role, now |-> clock,
                         candidate |-> PreparedCandidate(role, candidate, clock, p),
                         first |-> role \notin DOMAIN store]]
                /\ pc' = [pc EXCEPT ![p] = "replace"]
                /\ UNCHANGED ret
        /\ UNCHANGED <<store, clock, generated, last, won>>

\* the atomic conditional replace, and the comparison of its result
USReplace(p) ==
    /\ pc[p] = "replace"
    /\ LET c == call[p]
           new_val == ReplaceWith(store, c.role, c.candidate, c.now)
       IN  /\ store' = Replaced(store, c.role, c.candidate, c.now)
           /\ call' = [call EXCEPT ![p] = Merge(c, [new_val |-> new_val])]
           /\ IF IsUniqueService(new_val, c.candidate)
              THEN /\ won' = [won EXCEPT ![p] =
                            [now |-> c.now, ttl |-> c.candidate.ttl,
                             call |-> calls[p], first |-> c.first,
                             payload |-> Payload(c.candidate)]]
                   /\ pc' = [pc EXCEPT ![p] = "update"]
              ELSE /\ pc' = [pc EXCEPT ![p] = "read"]
                   /\ UNCHANGED won
    /\ UNCHANGED <<clock, generated, last, ret, calls>>

\* the heartbeat of the recognized holder
USUpdate(p) ==
    /\ pc[p] = "update"
    /\ store' = Update(store, call[p].role, RenewalDoc(call[p].candidate))
    /\ pc' = [pc EXCEPT ![p] = "read"]
    /\ UNCHANGED <<clock, generated, last, call, won, ret, calls>>

\* the final query and the return
USRead(p) ==
    /\ pc[p] = "read"
    /\ ret' = [ret EXCEPT ![p] = FinalRead(store, call[p].role, call[p].now)]
    /\ pc' = [pc EXCEPT ![p] = "idle"]
    /\ UNCHANGED <<store, clock, generated, last, call, won, calls>>

\* A whole unique_service call that no other client's query interleaves with
UniqueService ==
    \E p \in Procs : \E role \in UniqueRoles, fails \in BOOLEAN,
       candidate \in Candidates(p) \cup VariedCandidates(p)
                        \cup MalformedCandidates \cup {None} :
        /\ \A q \in Procs : pc[q] = "idle"
        /\ IF candidate = None
           THEN /\ ~fails
                /\ last' = [op |-> "unique_service", role |-> role, pid |-> p,
                            before |-> Get(store, role),
                            candidate |-> None, now |-> clock, raised |-> FALSE,
                            failed |-> FALSE, new_val |-> None, recognized |-> FALSE,
                            result |-> FinalRead(store, role, clock)]
                /\ UNCHANGED store
           ELSE IF CandidateRaises(candidate)
           THEN /\ ~fails
                /\ last' = [op |-> "unique_service", role |-> role, pid |-> p,
                            before |-> Get(store, role),
                            candidate |-> candidate, now |-> clock, raised |-> TRUE,
                            failed |-> FALSE, new_val |-> None, recognized |-> FALSE,
                            result |-> None]
                /\ UNCHANGED store
           ELSE IF fails
           \* the replace query raises: nothing in unique_service catches it
           THEN /\ last' = [op |-> "unique_service", role |-> role, pid |-> p,
                            before |-> Get(store, role),
                            candidate |-> candidate, now |-> clock, raised |-> TRUE,
                            failed |-> TRUE, new_val |-> None, recognized |-> FALSE,
                            result |-> None]
                /\ UNCHANGED store
           ELSE LET c == PreparedCandidate(role, candidate, clock, p)
                    new_val == ReplaceWith(store, role, c, clock)
                    replaced == Replaced(store, role, c, clock)
                    recognized == IsUniqueService(new_val, c)
                    updated == IF recognized
                               THEN Update(replaced, role, RenewalDoc(c))
                               ELSE replaced
                IN  /\ store' = updated
                    /\ last' = [op |-> "unique_service", role |-> role, pid |-> p,
                                before |-> Get(store, role),
                                candidate |-> candidate, now |-> clock, raised |-> FALSE,
                                failed |-> FALSE, new_val |-> new_val,
                                recognized |-> recognized,
                                result |-> FinalRead(updated, role, clock)]
        /\ UNCHANGED <<clock, generated, electionVars>>

----------------------------------------------------------------------------
(* Passage of time *)

Tick ==
    /\ clock < MaxTime
    /\ clock' = clock + 1
    /\ UNCHANGED <<store, generated, last, electionVars>>

----------------------------------------------------------------------------

Init ==
    /\ store = << >>
    /\ clock = 0
    /\ generated = 0
    /\ last = [op |-> "none"]
    /\ pc = [p \in Procs |-> "idle"]
    /\ call = [p \in Procs |-> None]
    /\ won = [p \in Procs |-> None]
    /\ ret = [p \in Procs |-> None]
    /\ calls = [p \in Procs |-> 0]

Next ==
    \/ Tick
    \/ Heartbeat
    \/ Unregister
    \/ HealthyService
    \/ HealthyServices
    \/ PurgeStaleServices

Spec == Init /\ [][Next]_vars

\* The election alone: clients whose unique_service calls run one after
\* another, each as one step
NextUnique ==
    \/ Tick
    \/ UniqueService

SpecUnique == Init /\ [][NextUnique]_vars

\* Services that send their heartbeat again and again, with a status map that
\* has no id at all or with the id the database gave them
AnonymousStatuses == {[role |-> "r2", load |-> 1, ttl |-> 1]}

\* the same status with the id of a row filled in ("supply the id value from
\* there with every subsequent heartbeat"), or the whole returned record
RememberedStatuses ==
    {Merge(status_info, [id |-> i]) : status_info \in AnonymousStatuses, i \in DOMAIN store}
        \cup {store[i] : i \in DOMAIN store}

RetryStatuses ==
    RememberedStatuses \cup (IF generated < MaxGen THEN AnonymousStatuses ELSE {})

NextRetry ==
    \/ Tick
    \/ HeartbeatOf(RetryStatuses)

SpecRetry == Init /\ [][NextRetry]_vars

\* The registry and the election on one table: services that heartbeat a
\* row of their own, or re-send a row of the table (the row of the role
\* included), next to clients that call unique_service one after another
SharedStatuses ==
    {[id |-> "s1", role |-> "r1", load |-> 1, ttl |-> 2]} \cup ResubmittedStatuses

NextShared ==
    \/ Tick
    \/ HeartbeatOf(SharedStatuses)
    \/ UniqueService

SpecShared == Init /\ [][NextShared]_vars

\* The election with the storage queries of concurrent calls interleaved
NextElection ==
    \/ Tick
    \/ \E p \in Procs : USBegin(p)
    \/ \E p \in Procs : USReplace(p)
    \/ \E p \in Procs : USUpdate(p)
    \/ \E p \in Procs : USRead(p)

SpecElection == Init /\ [][NextElection]_vars

----------------------------------------------------------------------------
(* Properties of the election *)

\* The validity intervals [now, now + ttl) of two recognized calls overlap
Overlap(a, b) == a.now < b.now + b.ttl /\ b.now < a.now + a.ttl

\* C1: no two different candidates are both recognized as the holder of the
\* role by calls whose validity intervals [now, now + ttl) overlap.
C1_MutualExclusion ==
    \A p, q \in Procs :
        (p # q /\ won[p] # None /\ won[q] # None) => ~Overlap(won[p], won[q])

\* The clients that have been recognized as the holder
Winners == {p \in Procs : won[p] # None}

\* Every client has made exactly one call, a claim with a well-formed
\* candidate begun while the role had no row, and every call has returned
RaceDone ==
    \A p \in Procs :
        /\ calls[p] = 1 /\ pc[p] = "idle"
        /\ call[p].candidate # None /\ ret[p] # [raised |-> TRUE]
        /\ call[p].first

\* No candidate of the race captured its time a ttl or more after another's
RaceInTime ==
    \A p, q \in Procs : call[p].now - call[q].now < call[q].candidate.ttl

\* A client's call after its first one was a query without candidate begun
\* when the role had a row, it has returned, and the only claim recognized so
\* far is a first claim of w
QueryAfterRace(p, w) ==
    /\ calls[p] >= 2 /\ pc[p] = "idle" /\ call[p].candidate = None /\ ~call[p].first
    /\ Winners = {w} /\ won[w].call = 1 /\ won[w].first

RaceOutcome ==
    \E w \in Procs :
        /\ Winners = {w}
        /\ \A p \in Procs : ret[p] # None /\ Payload(ret[p]) = Payload(call[w].candidate)

QueryOutcome ==
    \A p, w \in Procs :
        (/\ QueryAfterRace(p, w)
         /\ "r1" \in DOMAIN store
         /\ call[p].now - store["r1"].last_heartbeat < store["r1"].ttl)
        => (ret[p] # None /\ Payload(ret[p]) = won[w].payload)

\* C2 as stated: after N concurrent first claims exactly one client is the
\* winner and every call returns the winner's record, and so does each later
\* query made while that record is healthy.
C2_Original == (RaceDone => RaceOutcome) /\ QueryOutcome

\* C2: the same, for first claims whose captured times are less than a ttl
\* apart (now_X - now_Y < ttl_Y for any two candidates X, Y): exactly one is
\* recognized, all N calls return its record, and later candidate-less
\* queries made while the record is healthy return it too.
C2_FirstClaimRace == ((RaceDone /\ RaceInTime) => RaceOutcome) /\ QueryOutcome

\* C2 witness: a finished race between candidates that captured different
\* times less than a ttl apart
C2_Witness == RaceDone /\ RaceInTime /\ call[1].now # call[2].now

UniqueCall == last.op = "unique_service" /\ last.candidate # None

\* C3: a challenger whose captured now finds the holder's row with
\* last_heartbeat <= now - ttl (boundary included) gets its candidate
\* installed, is recognized as the holder, and is returned its own record.
C3_Failover ==
    (/\ UniqueCall /\ ~last.raised
     /\ last.before # None
     /\ last.before.last_heartbeat <= last.now - last.before.ttl)
    => /\ last.recognized
       /\ last.role \in DOMAIN store
       /\ last.result = store[last.role]
       /\ \A k \in DOMAIN last.candidate \ {"id"} : last.result[k] = last.candidate[k]
       /\ last.result.id = last.role
       /\ last.result.pid = last.pid
       /\ last.result.first_heartbeat = last.now
       /\ last.result.last_heartbeat = last.now

\* C3 witness: a different client took the role over exactly at the boundary
C3_Witness ==
    /\ UniqueCall /\ ~last.raised /\ last.before # None
    /\ last.now - last.before.last_heartbeat = last.before.ttl
    /\ last.before.pid # last.pid
    /\ last.recognized /\ last.result # None /\ last.result.pid = last.pid

\* The row of the role is as it was before the last unique_service call
RowUntouched == Get(store, last.role) = last.before

\* C6 as stated: a candidate lacking role, load or ttl, or whose ttl is not
\* a number > 0, is rejected before any storage operation.
C6_Original ==
    (/\ UniqueCall
     /\ \/ \E f \in {"role", "load", "ttl"} : f \notin DOMAIN last.candidate
        \/ last.candidate.ttl = NotANumber
        \/ last.candidate.ttl <= 0)
    => (last.raised /\ RowUntouched)

\* C6: a candidate lacking ttl, or whose ttl is not a number > 0, is rejected
\* before any storage operation and the row of the role stays as it was;
\* role and load are not required of a candidate.
C6_ElectionValidation ==
    (/\ UniqueCall
     /\ \/ "ttl" \notin DOMAIN last.candidate
        \/ last.candidate.ttl = NotANumber
        \/ last.candidate.ttl <= 0)
    => (last.raised /\ RowUntouched)

\* C6 witness: a candidate with ttl 0 was rejected while the role had a row
C6_Witness ==
    /\ UniqueCall /\ last.raised /\ last.before # None
    /\ "ttl" \in DOMAIN last.candidate /\ last.candidate.ttl = 0

----------------------------------------------------------------------------
(* Properties of the registry *)

\* The step is a heartbeat call that passed validation and was stored
StoredHeartbeat ==
    /\ clock' = clock /\ last'.op = "heartbeat"
    /\ ~last'.raised /\ ~last'.failed

\* The step is a stored heartbeat for an id that already had a row
LaterHeartbeat == StoredHeartbeat /\ last'.status_info.id \in DOMAIN store

\* C4 as stated: across successive heartbeats of one id, last_heartbeat
\* strictly increases and first_heartbeat keeps the value of the first call,
\* whatever status map is resubmitted.
C4_Original ==
    [][LaterHeartbeat =>
        LET id == last'.status_info.id
        IN  /\ store'[id].last_heartbeat > store[id].last_heartbeat
            /\ store'[id].first_heartbeat = store[id].first_heartbeat]_vars

\* C4: across successive heartbeats of one id, last_heartbeat is the time of
\* the call, never decreases, and strictly increases when the clock has
\* advanced since the previous heartbeat; first_heartbeat keeps its value
\* when the caller resubmits the first_heartbeat it was returned, and is
\* reset to the time of the call when the status map carries none.
C4_HeartbeatTimestamps ==
    [][LaterHeartbeat =>
        LET id == last'.status_info.id
            st == last'.status_info
        IN  /\ store'[id].last_heartbeat = clock
            /\ store'[id].last_heartbeat >= store[id].last_heartbeat
            /\ (store[id].last_heartbeat < clock =>
                    store'[id].last_heartbeat > store[id].last_heartbeat)
            /\ ("first_heartbeat" \in DOMAIN st =>
                    store'[id].first_heartbeat = st.first_heartbeat)
            /\ (("first_heartbeat" \in DOMAIN st
                    /\ st.first_heartbeat = store[id].first_heartbeat) =>
                    store'[id].first_heartbeat = store[id].first_heartbeat)
            /\ ("first_heartbeat" \notin DOMAIN st =>
                    store'[id].first_heartbeat = clock)]_vars

\* C4 witness: a resubmitted record was stored with its earlier
\* first_heartbeat and a later last_heartbeat
C4_Witness ==
    /\ last.op = "heartbeat" /\ ~last.raised /\ ~last.failed
    /\ "first_heartbeat" \in DOMAIN last.status_info
    /\ last.status_info.id \in DOMAIN store
    /\ store[last.status_info.id].first_heartbeat = last.status_info.first_heartbeat
    /\ store[last.status_info.id].first_heartbeat < store[last.status_info.id].last_heartbeat
    /\ last.status_info.last_heartbeat < store[last.status_info.id].last_heartbeat

\* The status map lacks a required field or its ttl is not a number > 0
BadStatus(st) ==
    \/ "role" \notin DOMAIN st
    \/ "load" \notin DOMAIN st
    \/ "ttl" \notin DOMAIN st
    \/ st.ttl = NotANumber
    \/ st.ttl <= 0

\* C5: a heartbeat whose status lacks role, load or ttl, or whose ttl is not
\* a number > 0, raises, issues no storage operation and leaves every row
\* unchanged; every stored row has a numeric ttl > 0.
C5_HeartbeatValidation ==
    /\ [][(clock' = clock /\ last'.op = "heartbeat" /\ BadStatus(last'.status_info))
            => (last'.raised /\ ~last'.failed /\ store' = store)]_vars
    /\ [](\A i \in DOMAIN store : store[i].ttl # NotANumber /\ store[i].ttl > 0)

\* C5 witness: a status with ttl 0 was rejected while rows were stored
C5_Witness ==
    /\ last.op = "heartbeat" /\ last.raised
    /\ "ttl" \in DOMAIN last.status_info /\ last.status_info.ttl = 0
    /\ store # << >>

\* Rows of a role that are healthy at time t
HealthyRows(st, role, t) ==
    {i \in DOMAIN st : st[i].role = role /\ t - st[i].last_heartbeat < st[i].ttl}

\* C7: healthy_service(role) returns none exactly when no row of the role is
\* healthy (now - last_heartbeat < ttl); otherwise it returns a healthy row
\* of that role whose load is minimal among the healthy rows of the role.
C7_HealthyService ==
    [][(clock' = clock /\ last'.op = "healthy_service") =>
        LET res == last'.result
            healthy == HealthyRows(store, last'.role, clock)
        IN  /\ res = None <=> healthy = {}
            /\ res # None =>
                \E i \in healthy :
                    /\ res = store[i]
                    /\ \A j \in healthy : store[i].load <= store[j].load]_vars

\* C7 witness: the call returned the less loaded of two healthy rows of the
\* role, the one that comes second in the table
C7_Witness ==
    /\ last.op = "healthy_service" /\ last.result # None
    /\ \E j \in HealthyRows(store, last.role, clock) :
        /\ store[j].load > last.result.load
        /\ IdPos(j, 1) < IdPos(last.result.id, 1)

\* The elements of a list of rows
Range(seq) == {seq[n] : n \in 1..Len(seq)}

AscendingLoad(seq) == \A m, n \in 1..Len(seq) : m < n => seq[m].load <= seq[n].load

\* C8: healthy_services(role) returns exactly the healthy rows of the role in
\* ascending load order, all healthy rows when role is omitted, and
\* healthy_service(role) is its first element, or none when it is empty.
C8_HealthyServices ==
    [][/\ (clock' = clock /\ last'.op = "healthy_services") =>
            LET res == last'.result
                expected == IF last'.role = None
                            THEN UNION {HealthyRows(store, r, clock) : r \in Roles}
                            ELSE HealthyRows(store, last'.role.name, clock)
            IN  /\ Range(res) = {store[i] : i \in expected}
                /\ Len(res) = Cardinality(expected)
                /\ AscendingLoad(res)
       /\ (clock' = clock /\ last'.op = "healthy_service") =>
            LET list == HealthyServicesQuery(store, [name |-> last'.role], clock)
            IN  last'.result = IF list = << >> THEN None ELSE list[1]]_vars

\* C8 witness: a call without role returned rows of two roles and of two
\* loads
C8_Witness ==
    /\ last.op = "healthy_services" /\ last.role = None
    /\ Len(last.result) >= 2
    /\ \E m, n \in 1..Len(last.result) :
        /\ last.result[m].role # last.result[n].role
    /\ \E m, n \in 1..Len(last.result) :
        /\ last.result[m].load < last.result[n].load

\* C9: unregister(id) never raises; it removes exactly the row of id when
\* there is one and leaves the store unchanged when there is none, so a
\* repeated unregister has the effect of a single one.
C9_UnregisterIdempotent ==
    [][(clock' = clock /\ last'.op = "unregister") =>
        /\ ~last'.raised
        /\ DOMAIN store' = DOMAIN store \ {last'.id}
        /\ \A i \in DOMAIN store' : store'[i] = store[i]
        /\ (last'.id \notin DOMAIN store => store' = store)]_vars

\* C9 witness: unregister of an id without a row, other rows being stored
C9_Witness ==
    /\ last.op = "unregister" /\ last.deleted = 0 /\ ~last.raised
    /\ store # << >>

\* C10: purge_stale_services(multiplier) deletes exactly the rows with
\* now - last_heartbeat > multiplier * ttl and leaves the others unchanged;
\* with multiplier 2 a row with ttl <= staleness <= 2*ttl is kept; a healthy
\* row is never deleted.
C10_PurgeStale ==
    [][(clock' = clock /\ last'.op = "purge_stale_services") =>
        LET m == last'.ttls_until_deletion
            stale == {i \in DOMAIN store :
                        clock - store[i].last_heartbeat > m * store[i].ttl}
        IN  /\ DOMAIN store' = DOMAIN store \ stale
            /\ \A i \in DOMAIN store' : store'[i] = store[i]
            /\ last'.deleted = Cardinality(stale)
            /\ \A i \in DOMAIN store :
                (clock - store[i].last_heartbeat < store[i].ttl) => i \in DOMAIN store'
            /\ \A i \in DOMAIN store :
                (/\ m = 2
                 /\ store[i].ttl <= clock - store[i].last_heartbeat
                 /\ clock - store[i].last_heartbeat <= 2 * store[i].ttl)
                => i \in DOMAIN store']_vars

\* C10 witness: a purge with the default multiplier deleted a row and kept
\* one whose staleness is exactly twice its ttl
C10_Witness ==
    /\ last.op = "purge_stale_services" /\ last.ttls_until_deletion = 2
    /\ last.deleted >= 1
    /\ \E i \in DOMAIN store : clock - store[i].last_heartbeat = 2 * store[i].ttl

----------------------------------------------------------------------------
(* Storage failures *)

\* C11: when the insert of a valid heartbeat fails, the call raises nothing,
\* returns the caller's status with exactly the fields it was passed and
\* leaves the table as it was; when the conditional replace of unique_service
\* fails, the exception reaches the caller (and the table is as it was).
C11_BestEffortHeartbeat ==
    [][(clock' = clock /\ last'.failed)
        => /\ store' = store
           /\ last'.op = "heartbeat"
                => (~last'.raised /\ last'.result = last'.status_info)
           /\ last'.op = "unique_service" => last'.raised]_vars

\* C11 witness: a heartbeat without timestamps, host or pid failed to be
\* stored while the role had a row, and came back as it was passed
C11_Witness ==
    /\ last.op = "heartbeat" /\ last.failed /\ ~last.raised
    /\ DOMAIN last.result = {"id", "role", "load", "ttl"}
    /\ "r1" \in DOMAIN store /\ "s1" \notin DOMAIN store

----------------------------------------------------------------------------
(* Repeated heartbeats *)

\* The step is a stored heartbeat whose status map is the one of the stored
\* heartbeat before it
RepeatedHeartbeat ==
    /\ StoredHeartbeat
    /\ last.op = "heartbeat" /\ ~last.raised /\ ~last.failed
    /\ last'.status_info = last.status_info

\* The rows of the table other than row id are the same before and after
OthersUntouched(id) ==
    \A i \in DOMAIN store \ {id} : i \in DOMAIN store' /\ store'[i] = store[i]

\* C12 as stated: sending the same valid status map again leaves the table
\* with the same row ids, and only last_heartbeat of the one row differs.
C12_Original ==
    [][RepeatedHeartbeat
        => /\ DOMAIN store' = DOMAIN store
           /\ \A i \in DOMAIN store :
                Without(store'[i], "last_heartbeat") = Without(store[i], "last_heartbeat")]_vars

\* C12: sending the same valid status map again leaves the table with the
\* same row ids provided the map carries an id; the row of that id then
\* differs in last_heartbeat only when the map carries first_heartbeat, and
\* in both timestamps when it does not.  A map without id gets a newly
\* generated id, hence one more row, on every call.
C12_HeartbeatRetry ==
    [][RepeatedHeartbeat
        => IF Has(last'.status_info, "id")
           THEN LET id == last'.status_info.id
                IN  /\ DOMAIN store' = DOMAIN store
                    /\ OthersUntouched(id)
                    /\ Payload(store'[id]) = Payload(store[id])
                    /\ Has(last'.status_info, "first_heartbeat")
                         => store'[id].first_heartbeat = store[id].first_heartbeat
           ELSE /\ last'.result.id \notin DOMAIN store
                /\ DOMAIN store' = DOMAIN store \cup {last'.result.id}
                /\ OthersUntouched(last'.result.id)]_vars

\* C12 witness: a record that heartbeat returned for an id-less map has been
\* sent again at a later time and is still the only row of its service
C12_Witness ==
    /\ last.op = "heartbeat" /\ ~last.raised /\ ~last.failed
    /\ Has(last.status_info, "id") /\ last.status_info.id = "g1"
    /\ last.result.last_heartbeat > last.result.first_heartbeat
    /\ DOMAIN store = {"g1"}

----------------------------------------------------------------------------
(* The conditional replace *)

\* The step is the conditional replace of client p's call
ReplaceStep(p) == pc[p] = "replace" /\ pc'[p] # "replace"

\* The row is absent, or its last heartbeat is a ttl (its own) or more before t
Claimable(row, t) == row = None \/ row.last_heartbeat <= t - row.ttl

\* C13: the replace of a call with captured time now puts the candidate in
\* place of the row of the role iff the row is absent or has last_heartbeat
\* <= now - ttl, with the ttl of the row; otherwise the row stays as it was;
\* other rows are not touched, and the value the replace returns is the row
\* as it stands afterwards.
C13_ConditionalClaim ==
    [][\A p \in Procs :
        ReplaceStep(p)
        => LET c == call[p]
               row == Get(store, c.role)
           IN  /\ DOMAIN store' = DOMAIN store \cup {c.role}
               /\ \A i \in DOMAIN store \ {c.role} : store'[i] = store[i]
               /\ store'[c.role] = IF Claimable(row, c.now) THEN c.candidate ELSE row
               /\ call'[p].new_val = store'[c.role]]_vars

\* C13 witness: a challenger's replace has kept a row that would have counted
\* as stale under the challenger's own, shorter ttl
C13_Witness ==
    \E p \in Procs :
        /\ pc[p] = "read" /\ call[p].candidate # None
        /\ call[p].new_val.pid # p
        /\ call[p].new_val.last_heartbeat <= call[p].now - call[p].candidate.ttl
        /\ call[p].new_val.last_heartbeat > call[p].now - call[p].new_val.ttl
        /\ store[call[p].role] = call[p].new_val

----------------------------------------------------------------------------
(* Recognition of the holder *)

\* The last call was unique_service with a well-formed candidate and its
\* queries went through
ClaimCall == UniqueCall /\ ~last.raised

\* The candidate of the last call with id, timestamps, host and pid filled in
Prepared == PreparedCandidate(last.role, last.candidate, last.now, last.pid)

\* The fields that make up the identity of a record
IdentityFields(d) == DOMAIN d \ {"first_heartbeat", "last_heartbeat"}

\* C14 as stated: the candidate is recognized iff the returned row and the
\* candidate agree on every field but the timestamps, a field only one of
\* them has being a mismatch; a candidate that is not recognized does not
\* write to the row.
C14_Original ==
    ClaimCall
    => /\ last.recognized
            <=> /\ IdentityFields(last.new_val) = IdentityFields(Prepared)
                /\ \A k \in IdentityFields(Prepared) : last.new_val[k] = Prepared[k]
       /\ ~last.recognized => store[last.role] = last.new_val

\* C14: the candidate is recognized, and the renewal written, iff every
\* field of the candidate but the timestamps is in the returned row with the
\* same value; fields only the row has are not looked at, so a candidate
\* whose fields are a subset of a healthy incumbent's is recognized and
\* refreshes last_heartbeat.  A candidate that is not recognized does not
\* write to the row.
C14_WinnerRecognition ==
    ClaimCall
    => /\ last.recognized
            <=> \A k \in IdentityFields(Prepared) :
                    k \in DOMAIN last.new_val /\ last.new_val[k] = Prepared[k]
       /\ last.recognized
            => /\ store[last.role].last_heartbeat = last.now
               /\ Without(store[last.role], "last_heartbeat")
                    = Without(last.new_val, "last_heartbeat")
       /\ ~last.recognized => store[last.role] = last.new_val

\* C14 witness: a candidate with fewer fields than the healthy row of the
\* role was recognized and has refreshed the row
C14_Witness ==
    /\ ClaimCall /\ last.recognized
    /\ last.before # None /\ last.new_val = last.before
    /\ IdentityFields(Prepared) # IdentityFields(last.before)
    /\ IdentityFields(Prepared) \subseteq IdentityFields(last.before)
    /\ store[last.role].last_heartbeat > last.before.last_heartbeat

----------------------------------------------------------------------------
(* Renewal *)

\* The last call was made by the instance whose record the row of the role
\* held, with the payload that record has
HolderCall ==
    ClaimCall /\ last.before # None /\ Payload(last.before) = Payload(Prepared)

\* C15 as stated: whenever the holder calls with its unchanged payload, the
\* row keeps first_heartbeat and gets last_heartbeat = now; first_heartbeat
\* changes only when a different candidate takes the role over.
C15_Original ==
    /\ HolderCall
        => /\ store[last.role].first_heartbeat = last.before.first_heartbeat
           /\ store[last.role].last_heartbeat = last.now
    /\ (ClaimCall /\ last.before # None
            /\ store[last.role].first_heartbeat # last.before.first_heartbeat)
        => Payload(last.before) # Payload(Prepared)

\* C15: whenever the holder calls with its unchanged payload less than ttl
\* after the row's last_heartbeat, the row keeps first_heartbeat and gets
\* last_heartbeat = now; first_heartbeat changes only when the row is
\* replaced, which happens when a candidate, a different one or the lapsed
\* holder itself, calls a ttl or more after the row's last_heartbeat, and
\* first_heartbeat is then the now of that call.
C15_RenewalKeepsClaimTime ==
    /\ (HolderCall /\ ~Claimable(last.before, last.now))
        => /\ last.recognized
           /\ store[last.role].first_heartbeat = last.before.first_heartbeat
           /\ store[last.role].last_heartbeat = last.now
    /\ (ClaimCall /\ last.before # None
            /\ store[last.role].first_heartbeat # last.before.first_heartbeat)
        => /\ Claimable(last.before, last.now)
           /\ store[last.role].first_heartbeat = last.now

\* C15 witness: the holder has renewed for the second time, later than its
\* claim and later than its first renewal
C15_Witness ==
    /\ HolderCall /\ ~Claimable(last.before, last.now)
    /\ last.before.last_heartbeat > last.before.first_heartbeat
    /\ last.now > last.before.last_heartbeat
    /\ store[last.role].last_heartbeat = last.now

----------------------------------------------------------------------------
(* Invariants of the table *)

\* C16: in every reachable state every row of the table has
\* last_heartbeat >= first_heartbeat.
C16_TimestampOrder ==
    \A i \in DOMAIN store : store[i].last_heartbeat >= store[i].first_heartbeat

\* C17 as stated: every row unique_service writes has id and role fields
\* both equal to the role argument, whatever the caller put in the candidate.
C17_Original ==
    \A k \in DOMAIN store :
        /\ k \in UniqueRoles
        /\ store[k].id = k
        /\ Has(store[k], "role") /\ store[k].role = k

\* C17: every row unique_service writes is keyed by the role argument and has
\* its id field equal to it, whatever id the caller put in the candidate, so
\* there is at most one such row per role; the role field is not set by
\* unique_service: the row has the role the caller put in the candidate, a
\* different one or none at all.
C17_IdIsRole ==
    /\ \A k \in DOMAIN store : k \in UniqueRoles /\ store[k].id = k
    /\ (ClaimCall /\ last.new_val = Prepared)
        => IF Has(last.candidate, "role")
           THEN store[last.role].role = last.candidate.role
           ELSE ~Has(store[last.role], "role")

\* C17 witness: a candidate that came with another id and another role has
\* been installed under the role it claimed
C17_Witness ==
    /\ ClaimCall /\ last.recognized
    /\ Has(last.candidate, "id") /\ last.candidate.id # last.role
    /\ store[last.role].id = last.role
    /\ store[last.role].role # last.role

----------------------------------------------------------------------------
(* Volatile payload *)

\* The last call was made by the holder of a still healthy row with a
\* candidate in which some field other than the timestamps has a value the
\* row does not have
VolatileCall ==
    /\ ClaimCall /\ last.before # None
    /\ ~Claimable(last.before, last.now)
    /\ last.before.pid = last.pid
    /\ \E k \in IdentityFields(Prepared) :
            k \notin DOMAIN last.before \/ last.before[k] # Prepared[k]

----------------------------------------------------------------------------
(* Stability of the incumbent *)

\* Client c is about to run its replace while the row of the role is the
\* record of client h, whose latest call is a claim that captured its time
\* less than ttl after the row's last_heartbeat and less than ttl before c's
Challenged(c, h) ==
    /\ c # h /\ pc[c] = "replace"
    /\ call[h] # None /\ call[h].candidate # None
    /\ call[c].role \in DOMAIN store
    /\ LET row == store[call[c].role]
       IN  /\ Payload(row) = Payload(call[h].candidate)
           /\ call[h].now - row.last_heartbeat < row.ttl
           /\ call[c].now - call[h].now < row.ttl

\* The replace of c left the row alone and c is not recognized
Rebuffed(c) == store' = store /\ pc'[c] = "read"

----------------------------------------------------------------------------
(* The value a claim returns *)

\* Client p's latest call was a claim with a well-formed candidate and it
\* has returned
ClaimReturned(p) ==
    /\ pc[p] = "idle" /\ call[p] # None
    /\ call[p].candidate # None /\ ret[p] # [raised |-> TRUE]

\* C20: every unique_service call with a well-formed candidate that returns
\* gives back a record, never None, and that record is healthy at the now the
\* call captured, however the calls of the candidates interleave.
C20_ClaimYieldsHolder ==
    \A p \in Procs :
        ClaimReturned(p)
        => /\ ret[p] # None
           /\ ret[p].last_heartbeat > call[p].now - ret[p].ttl

----------------------------------------------------------------------------
(* The record of the holder *)

\* The payloads the candidates of the election call with, as unique_service
\* fills them in
PayloadsOf(p) ==
    {Payload(PreparedCandidate(role, candidate, 0, p)) :
        role \in UniqueRoles, candidate \in Candidates(p)}

CandidatePayloads == UNION {PayloadsOf(p) : p \in Procs}

\* The non-timestamp fields of every row are the payload of one candidate
SingleCandidate == \A k \in DOMAIN store : Payload(store[k]) \in CandidatePayloads

\* No row's last_heartbeat is earlier after the step than before it
HeartbeatAdvances ==
    \A k \in DOMAIN store \cap DOMAIN store' :
        store'[k].last_heartbeat >= store[k].last_heartbeat

\* C21: in every reachable state the non-timestamp fields of the row of the
\* role are exactly the payload of one candidate, never a merge of two, and
\* the row's last_heartbeat never moves backwards from a state to the next.
C21_NoMixedHolder == []SingleCandidate /\ [][HeartbeatAdvances]_vars

====
